---- MODULE Spec2Model ----
(***************************************************************************)
(* Streaming subsystem of the conversation page:                           *)
(*   - apiClient.stream  (lib/api-client): fetch, read loop, TextDecoder,  *)
(*     buffer / flushBuffer / handlePayload, the nested try/catch/finally; *)
(*   - ConversationDetailPage.handleSend: the three callbacks, the         *)
(*     snapshot updaters and the catch / finally after the stream.         *)
(*                                                                         *)
(* Text is a sequence of code points (integers); the response body is a    *)
(* sequence of bytes (integers) that reader.read() hands over in chunks of *)
(* any size.  Everything JavaScript runs between two awaits is one action. *)
(***************************************************************************)
EXTENDS Integers, Sequences, FiniteSets, TLC

VARIABLES
    family,           \* which set of response bodies the server draws from
    tenantId,         \* useTenant().tenantId: TRUE when a tenant is selected
    mounted,          \* the page component is mounted
    messageContent,   \* useState: composer text
    sendError,        \* useState: string or Null
    isSending,        \* useState
    isStreaming,      \* useState
    streamController, \* useRef: "ctl" while a controller is stored, else Null
    streamSnapshot,   \* useState: AgentStreamSnapshot or Null
    content,          \* handleSend local: the trimmed message being sent
    pc,               \* where handleSend / stream is suspended
    aborted,          \* controller.signal.aborted of the current send
    text,             \* the text the server sends for the current request
    wire,             \* bytes of the response body not yet read
    decoder,          \* state of the TextDecoder kept across chunks
    buffer,           \* stream: let buffer
    locks,            \* [acquired, released]: getReader() / releaseLock() counts
    outcome,          \* promise returned by stream: pending, resolved, rejected
    thrown,           \* the error the promise rejected with, or Null
    calls,            \* history: callbacks invoked by this stream call, in order
    handled,          \* history: segments handed to handlePayload and their effect
    decoded,          \* history: all text appended to buffer so far
    trace,            \* history: snapshot updater applications (pre, post)
    abortMark,        \* history: where the abort happened (pc, Len(calls)) or Null
    cutInDelimiter,   \* history: a chunk ended between the two \n of a delimiter
    cutInChar,        \* history: a chunk ended inside a multi-byte character
    sends,            \* history: number of streams handleSend has started
    ending            \* history: the way the current stream call ended

vars == <<family, tenantId, mounted, messageContent, sendError, isSending,
          isStreaming, streamController, streamSnapshot, content, pc, aborted,
          text, wire, decoder, buffer, locks, outcome, thrown, calls, handled,
          decoded, trace, abortMark, cutInDelimiter, cutInChar, sends, ending>>

Null == "null"

\* ------------------------------------------------------------------ bounds
\* Frames per response body in the text family.
MaxFrames == 2
\* Events per response body in the event family.
MaxEvents == 2
\* Sends per page in the resend family.
MaxSends == 2

\* ------------------------------------------------------------- characters
NL == 10
SP == 32
\* "x\u00E9": the characters of the message texts, one of one byte and one
\* of two bytes in UTF-8.
SampleText == <<120, 233>>
LetterX == SampleText[1]
EAcute == SampleText[2]
Replacement == 65533
ByteOrderMark == 65279

\* "data:"
DataPrefix == <<100, 97, 116, 97, 58>>
\* "[DONE]"
DoneSentinel == <<91, 68, 79, 78, 69, 93>>
\* "[ERROR]"
ErrorSentinel == <<91, 69, 82, 82, 79, 82, 93>>

\* JavaScript's \s and String.prototype.trim: WhiteSpace and LineTerminator.
IsWhitespace(c) ==
    \/ c \in {9, 10, 11, 12, 13, 32, 160, 5760, 8232, 8233, 8239, 8287, 12288, 65279}
    \/ c \in 8192..8202

\* ---------------------------------------------------------- string helpers
RECURSIVE Concat(_)
\* Concatenation of a sequence of sequences.
Concat(ss) == IF ss = <<>> THEN <<>> ELSE Head(ss) \o Concat(Tail(ss))

\* String.prototype.startsWith
StartsWith(s, p) == Len(s) >= Len(p) /\ SubSeq(s, 1, Len(p)) = p

\* s.slice(n) with n a 0-based index: the text from position n+1 on.
SliceFrom(s, n) == SubSeq(s, n + 1, Len(s))

\* buffer.indexOf("\n\n"), 1-based; 0 when there is none (JavaScript's -1).
IndexOfBoundary(s) ==
    LET hits == {i \in 1..(Len(s) - 1) : s[i] = NL /\ s[i + 1] = NL}
    IN IF hits = {} THEN 0 ELSE CHOOSE i \in hits : \A j \in hits : i <= j

RECURSIVE SplitLines(_)
\* segment.split("\n")
SplitLines(s) ==
    LET hits == {i \in 1..Len(s) : s[i] = NL}
    IN IF hits = {} THEN <<s>>
       ELSE LET i == CHOOSE k \in hits : \A j \in hits : k <= j
            IN <<SubSeq(s, 1, i - 1)>> \o SplitLines(SliceFrom(s, i))

RECURSIVE JoinLines(_)
\* lines.join("\n")
JoinLines(ls) ==
    IF ls = <<>> THEN <<>>
    ELSE IF Len(ls) = 1 THEN ls[1]
    ELSE ls[1] \o <<NL>> \o JoinLines(Tail(ls))

\* buffer.trim() is a non-empty string
TrimNonEmpty(s) == \E i \in 1..Len(s) : ~IsWhitespace(s[i])

\* p occurs in s as a contiguous substring
Contains(s, p) == \E i \in 0..(Len(s) - Len(p)) : SubSeq(s, i + 1, i + Len(p)) = p

\* ------------------------------------------------------------------ errors
\* A thrown value: dom is "instanceof DOMException", name and message are the
\* error's fields.
NoError == [dom |-> FALSE, name |-> "", message |-> ""]
\* new Error("__STREAM_COMPLETE__")
StreamCompleteError == [dom |-> FALSE, name |-> "Error", message |-> "__STREAM_COMPLETE__"]
\* new Error("Stream reported error")
StreamReportedError == [dom |-> FALSE, name |-> "Error", message |-> "Stream reported error"]
\* new Error("Streaming response body unavailable")
NoBodyError == [dom |-> FALSE, name |-> "Error", message |-> "Streaming response body unavailable"]
\* An error built from the status text alone.
HttpErrorNoFallback(statusText) == [dom |-> FALSE, name |-> "Error", message |-> statusText]

\* new Error(response.statusText || "Stream request failed")
HttpError(statusText) ==
    [dom |-> FALSE, name |-> "Error",
     message |-> IF statusText = "" THEN "Stream request failed" ELSE statusText]
\* What fetch() and reader.read() reject with once the signal is aborted.
AbortError == [dom |-> TRUE, name |-> "AbortError", message |-> "The operation was aborted."]
\* What fetch() and reader.read() reject with when the connection fails.
NetworkErrors == {[dom |-> FALSE, name |-> "TypeError", message |-> "network error"]}

\* error instanceof DOMException && error.name === "AbortError"
IsAbortError(e) == e.dom /\ e.name = "AbortError"

\* One callback invocation, as recorded in the history "calls".
MessageCall(payload) == [cb |-> "onMessage", payload |-> payload, error |-> NoError]
DoneCall == [cb |-> "onDone", payload |-> <<>>, error |-> NoError]
ErrorCall(e) == [cb |-> "onError", payload |-> <<>>, error |-> e]

\* ------------------------------------------------------------------- UTF-8
\* The bytes the server puts on the wire for one code point (BMP only).
Utf8Encode(cp) ==
    IF cp < 128 THEN <<cp>>
    ELSE IF cp < 2048 THEN <<192 + (cp \div 64), 128 + (cp % 64)>>
    ELSE <<224 + (cp \div 4096), 128 + ((cp \div 64) % 64), 128 + (cp % 64)>>

RECURSIVE Utf8EncodeAll(_)
\* The bytes of a text: the encodings of its code points, in order (the text
\* is halved to keep the recursion shallow).
Utf8EncodeAll(s) ==
    IF \A i \in DOMAIN s : s[i] < 128 THEN s   \* ASCII: one byte each, the code point
    ELSE IF Len(s) = 1 THEN Utf8Encode(s[1])
    ELSE LET h == Len(s) \div 2
         IN Utf8EncodeAll(SubSeq(s, 1, h)) \o Utf8EncodeAll(SubSeq(s, h + 1, Len(s)))

\* new TextDecoder(): UTF-8, not fatal, BOM not ignored, nothing pending.
NewDecoder == [cp |-> 0, needed |-> 0, seen |-> 0, lower |-> 128, upper |-> 191, bomDone |-> FALSE]

\* The decoder's output for one scalar value: the leading BOM is dropped, a
\* value beyond the BMP becomes a surrogate pair of the JavaScript string.
Emit(st, cp) ==
    IF ~st.bomDone /\ cp = ByteOrderMark THEN <<>>
    ELSE IF cp > 65535
         THEN <<55296 + ((cp - 65536) \div 1024), 56320 + ((cp - 65536) % 1024)>>
         ELSE <<cp>>

Reset(st) == [cp |-> 0, needed |-> 0, seen |-> 0, lower |-> 128, upper |-> 191, bomDone |-> TRUE]

\* The decoder reads byte b with nothing pending.
DecodeLead(st, b) ==
    IF b <= 127 THEN [st |-> Reset(st), out |-> Emit(st, b)]
    ELSE IF b \in 194..223 THEN
        [st |-> [st EXCEPT !.needed = 1, !.cp = b - 192], out |-> <<>>]
    ELSE IF b \in 224..239 THEN
        [st |-> [st EXCEPT !.needed = 2, !.cp = b - 224,
                           !.lower = IF b = 224 THEN 160 ELSE 128,
                           !.upper = IF b = 237 THEN 159 ELSE 191],
         out |-> <<>>]
    ELSE IF b \in 240..244 THEN
        [st |-> [st EXCEPT !.needed = 3, !.cp = b - 240,
                           !.lower = IF b = 240 THEN 144 ELSE 128,
                           !.upper = IF b = 244 THEN 143 ELSE 191],
         out |-> <<>>]
    ELSE [st |-> Reset(st), out |-> Emit(st, Replacement)]

\* One step of the UTF-8 decoder of the Encoding standard: byte b in state st.
DecodeByte(st, b) ==
    IF st.needed = 0 THEN DecodeLead(st, b)
    ELSE IF b < st.lower \/ b > st.upper THEN
        \* U+FFFD for the broken sequence; the byte is read again from the reset state
        LET again == DecodeLead(Reset(st), b)
        IN [st |-> again.st, out |-> Emit(st, Replacement) \o again.out]
    ELSE LET cp == st.cp * 64 + (b - 128) IN
        IF st.seen + 1 = st.needed
        THEN [st |-> Reset(st), out |-> Emit(st, cp)]
        ELSE [st |-> [st EXCEPT !.cp = cp, !.seen = st.seen + 1,
                                !.lower = 128, !.upper = 191],
              out |-> <<>>]

\* The element of a one-element set.
The(S) == CHOOSE x \in S : TRUE

RECURSIVE DecodeBytes(_, _)
\* The decoder run over bytes from state st; a sequence left incomplete at the
\* end of bytes stays pending in the state (the bytes are halved to keep the
\* recursion shallow: the second half starts in the state the first ends in).
DecodeBytes(st, bytes) ==
    IF bytes = <<>> THEN [st |-> st, out |-> <<>>]
    ELSE IF Len(bytes) = 1 THEN DecodeByte(st, bytes[1])
    ELSE IF st.needed = 0 /\ st.bomDone /\ \A i \in DOMAIN bytes : bytes[i] < 128
         \* ASCII bytes with nothing pending: each is its own character
         THEN [st |-> st, out |-> bytes]
    ELSE LET h == Len(bytes) \div 2
         IN The(UNION {{[st |-> r.st, out |-> l.out \o r.out] :
                           r \in {DecodeBytes(l.st, SubSeq(bytes, h + 1, Len(bytes)))}} :
                       l \in {DecodeBytes(st, SubSeq(bytes, 1, h))}})

\* A decode without { stream: true }: each chunk is decoded on its own, an
\* incomplete sequence at its end becomes U+FFFD.
DecodeChunkAlone(st, bytes) ==
    LET r == DecodeBytes([NewDecoder EXCEPT !.bomDone = st.bomDone], bytes)
    IN [st |-> Reset(r.st),
        out |-> r.out \o (IF r.st.needed # 0 THEN <<Replacement>> ELSE <<>>)]

\* decoder.decode(value, { stream: true })
DecodeChunk(st, bytes) == DecodeBytes(st, bytes)

\* A buffer that keeps only the newest chunk.
ReplaceBuffer(buf, chunkText) == chunkText

\* buffer += chunkText
AppendToBuffer(buf, chunkText) == buf \o chunkText

\* ---------------------------------------------------- stream: handlePayload
\* A strip that removes all the whitespace after the prefix.
RECURSIVE StripAllLeadingWhitespace(_)
StripAllLeadingWhitespace(line) ==
    LET rest == IF StartsWith(line, DataPrefix) THEN SliceFrom(line, Len(DataPrefix)) ELSE line
    IN IF rest # <<>> /\ IsWhitespace(rest[1]) THEN StripAllLeadingWhitespace(Tail(rest))
       ELSE rest

\* line.replace(/^data:\s?/, "") on a line that starts with "data:"
StripDataPrefix(line) ==
    LET rest == SliceFrom(line, Len(DataPrefix))
    IN IF rest # <<>> /\ IsWhitespace(rest[1]) THEN Tail(rest) ELSE rest

RECURSIVE DataLines(_)
\* .filter((line) => line.startsWith("data:")).map(strip)
DataLines(ls) ==
    IF ls = <<>> THEN <<>>
    ELSE IF StartsWith(Head(ls), DataPrefix)
         THEN <<StripDataPrefix(Head(ls))>> \o DataLines(Tail(ls))
         ELSE DataLines(Tail(ls))

\* const payload = segment.split("\n").filter(...).map(...).join("\n")
ExtractPayload(segment) == JoinLines(DataLines(SplitLines(segment)))

\* payload === "[DONE]" / payload === "[ERROR]"
IsDoneSentinel(payload) == payload = DoneSentinel
IsErrorSentinel(payload) == payload = ErrorSentinel

\* A sentinel test by substring instead of equality.
HandlePayloadIncludes(segment) ==
    LET payload == ExtractPayload(segment) IN
    IF payload = <<>> THEN
        [segment |-> segment, effect |-> "none", calls |-> <<>>, threw |-> NoError]
    ELSE IF Contains(payload, DoneSentinel) THEN
        [segment |-> segment, effect |-> "onDone", calls |-> <<DoneCall>>,
         threw |-> StreamCompleteError]
    ELSE IF Contains(payload, ErrorSentinel) THEN
        [segment |-> segment, effect |-> "onError",
         calls |-> <<ErrorCall(StreamReportedError)>>, threw |-> StreamReportedError]
    ELSE [segment |-> segment, effect |-> "onMessage",
          calls |-> <<MessageCall(payload)>>, threw |-> NoError]

\* handlePayload without the "if (!payload) return".
HandlePayloadNoEmptyCheck(segment) ==
    LET payload == ExtractPayload(segment) IN
    IF IsDoneSentinel(payload) THEN
        [segment |-> segment, effect |-> "onDone", calls |-> <<DoneCall>>,
         threw |-> StreamCompleteError]
    ELSE IF IsErrorSentinel(payload) THEN
        [segment |-> segment, effect |-> "onError",
         calls |-> <<ErrorCall(StreamReportedError)>>, threw |-> StreamReportedError]
    ELSE [segment |-> segment, effect |-> "onMessage",
          calls |-> <<MessageCall(payload)>>, threw |-> NoError]

\* handlePayload that calls onDone for "[DONE]" but does not throw the marker.
HandlePayloadDoneContinues(segment) ==
    LET payload == ExtractPayload(segment) IN
    IF payload = <<>> THEN
        [segment |-> segment, effect |-> "none", calls |-> <<>>, threw |-> NoError]
    ELSE IF IsDoneSentinel(payload) THEN
        [segment |-> segment, effect |-> "onDone", calls |-> <<DoneCall>>, threw |-> NoError]
    ELSE IF IsErrorSentinel(payload) THEN
        [segment |-> segment, effect |-> "onError",
         calls |-> <<ErrorCall(StreamReportedError)>>, threw |-> StreamReportedError]
    ELSE [segment |-> segment, effect |-> "onMessage",
          calls |-> <<MessageCall(payload)>>, threw |-> NoError]

\* handlePayload(segment): the callback it invokes and the error it throws
\* (NoError when it returns normally).
HandlePayload(segment) ==
    LET payload == ExtractPayload(segment) IN
    IF payload = <<>> THEN
        [segment |-> segment, effect |-> "none", calls |-> <<>>, threw |-> NoError]
    ELSE IF IsDoneSentinel(payload) THEN
        [segment |-> segment, effect |-> "onDone", calls |-> <<DoneCall>>,
         threw |-> StreamCompleteError]
    ELSE IF IsErrorSentinel(payload) THEN
        [segment |-> segment, effect |-> "onError",
         calls |-> <<ErrorCall(StreamReportedError)>>, threw |-> StreamReportedError]
    ELSE [segment |-> segment, effect |-> "onMessage",
          calls |-> <<MessageCall(payload)>>, threw |-> NoError]

\* ------------------------------------------------------ stream: flushBuffer
RECURSIVE FlushLoop(_, _, _)
\* The while loop of flushBuffer: frames are cut off the front of the buffer
\* until no "\n\n" is left or handlePayload throws.
FlushLoop(buf, hs, cs) ==
    LET boundary == IndexOfBoundary(buf) IN
    IF boundary = 0
    THEN [buffer |-> buf, handled |-> hs, calls |-> cs, threw |-> NoError]
    ELSE LET rawEvent == SubSeq(buf, 1, boundary - 1)
             rest == SliceFrom(buf, boundary + 1)
             h == HandlePayload(rawEvent)
         IN IF h.threw # NoError
            THEN [buffer |-> rest, handled |-> Append(hs, h),
                  calls |-> cs \o h.calls, threw |-> h.threw]
            ELSE FlushLoop(rest, Append(hs, h), cs \o h.calls)

\* flushBuffer that handles one frame per call ("if" in place of "while").
FlushBufferOnce(buf, force) ==
    LET boundary == IndexOfBoundary(buf) IN
    IF boundary = 0
    THEN [buffer |-> buf, handled |-> <<>>, calls |-> <<>>, threw |-> NoError]
    ELSE LET h == HandlePayload(SubSeq(buf, 1, boundary - 1))
         IN [buffer |-> SliceFrom(buf, boundary + 1), handled |-> <<h>>,
             calls |-> h.calls, threw |-> h.threw]

\* flushBuffer(force)
FlushBuffer(buf, force) ==
    LET r == FlushLoop(buf, <<>>, <<>>) IN
    IF r.threw # NoError \/ ~force \/ ~TrimNonEmpty(r.buffer) THEN r
    ELSE LET h == HandlePayload(r.buffer)
         IN [buffer |-> IF h.threw = NoError THEN <<>> ELSE r.buffer,
             handled |-> Append(r.handled, h),
             calls |-> r.calls \o h.calls, threw |-> h.threw]

\* ------------------------------------------------- stream: catch / finally
\* An inner catch that does not single out the completion marker.
InnerCatchAll(e) == [calls |-> <<ErrorCall(e)>>, rethrow |-> TRUE]

\* catch (innerError): the completion marker ends the call normally, anything
\* else is reported and thrown again.
InnerCatch(e) ==
    IF e.message = "__STREAM_COMPLETE__"
    THEN [calls |-> <<>>, rethrow |-> FALSE]
    ELSE [calls |-> <<ErrorCall(e)>>, rethrow |-> TRUE]

\* An outer catch that reports a plain Error built from the message.
OuterCatchGeneric(e) ==
    <<ErrorCall([dom |-> FALSE, name |-> "Error", message |-> e.message])>>

\* catch (error) of the outer try: both branches report and throw again.
OuterCatch(e) ==
    IF IsAbortError(e) THEN <<ErrorCall(e)>> ELSE <<ErrorCall(e)>>

\* An outer catch that reports the error and does not throw it again.
LeaveInnerTrySwallowing(e) ==
    LET ic == InnerCatch(e) IN
    IF ic.rethrow
    THEN [calls |-> ic.calls \o OuterCatch(e), outcome |-> "resolved", thrown |-> NoError]
    ELSE [calls |-> ic.calls, outcome |-> "resolved", thrown |-> NoError]

\* What leaving the inner try with error e adds to the calls, and how the
\* promise settles; the finally (reader.releaseLock()) runs in between.
LeaveInnerTry(e) ==
    LET ic == InnerCatch(e) IN
    IF ic.rethrow
    THEN [calls |-> ic.calls \o OuterCatch(e), outcome |-> "rejected", thrown |-> e]
    ELSE [calls |-> ic.calls, outcome |-> "resolved", thrown |-> NoError]

\* A release that is skipped when the read loop was left by an abort.
ReleaseLockUnlessAborted(l, e) ==
    IF IsAbortError(e) THEN l ELSE [l EXCEPT !.released = @ + 1]

\* finally { reader.releaseLock() }: runs however the inner try was left
\* (e is what it was left with, NoError for the break).
ReleaseLock(l, e) == [l EXCEPT !.released = @ + 1]

\* ------------------------------------------------- page: event decoding
\* The JSON objects the server may send as content payloads.  Numbers in
\* [0,1] are kept in hundredths (confidence 0.92 is 92).  The JSON text of
\* object i is abbreviated to the single character JsonChar(i); JSON syntax
\* itself is not modelled.
WireObjects == <<
    [type |-> "status", state |-> "processing"],
    [type |-> "status", state |-> "retrieving"],
    [type |-> "intent", intent |-> [intent |-> "create_task", confidence |-> 92]],
    [type |-> "contexts", contexts |-> <<[text |-> "doc A", score |-> 80]>>],
    [type |-> "action",
     action |-> [tool |-> "create_task",
                 result |-> [status |-> "success", detail |-> "created"]]],
    [type |-> "answer", text |-> "Created task #12", strategy |-> "informed"],
    [type |-> "answer", text |-> "Draft"],
    [type |-> "error", message |-> "x"],
    [type |-> "done"],
    [type |-> "intent", intent |-> [intent |-> "create_task", confidence |-> 150]],
    [type |-> "tool_call"] >>

JsonChar(i) == 13 + i
JsonText(i) == <<JsonChar(i)>>

\* JSON.parse(chunk): the object, or a SyntaxError (ok = FALSE).
JSONParse(chunk) ==
    IF Len(chunk) = 1 /\ \E i \in DOMAIN WireObjects : chunk[1] = JsonChar(i)
    THEN [ok |-> TRUE, value |-> WireObjects[CHOOSE i \in DOMAIN WireObjects : chunk[1] = JsonChar(i)]]
    ELSE [ok |-> FALSE, value |-> [type |-> ""]]

Has(obj, key) == key \in DOMAIN obj
\* optional string field: the value, or Null when the key is absent
Opt(obj, key) == IF Has(obj, key) THEN obj[key] ELSE Null

\* agentIntentSchema
IntentValid(o) ==
    /\ Has(o, "intent") /\ Has(o, "confidence")
    /\ o.confidence >= 0 /\ o.confidence <= 100
IntentParsed(o) ==
    [intent |-> o.intent, confidence |-> o.confidence,
     reasoning |-> Opt(o, "reasoning"),
     entities |-> IF Has(o, "entities") THEN o.entities ELSE <<>>]

\* agentContextSchema
ContextValid(o) == Has(o, "text")
ContextParsed(o) ==
    [text |-> o.text, score |-> IF Has(o, "score") THEN o.score ELSE 0,
     source |-> Opt(o, "source")]

\* agentActionSchema
ActionValid(o) ==
    /\ Has(o, "tool") /\ Has(o, "result")
    /\ Has(o.result, "status") /\ Has(o.result, "detail")
ActionParsed(o) == [tool |-> o.tool, status |-> o.result.status, detail |-> o.result.detail]

EventTypes == {"status", "intent", "contexts", "action", "answer", "done", "error"}

\* agentStreamEventSchema.parse(value): does value match one of the seven shapes
SchemaValid(o) ==
    /\ Has(o, "type") /\ o.type \in EventTypes
    /\ o.type = "status" => Has(o, "state")
    /\ o.type = "intent" => Has(o, "intent") /\ IntentValid(o.intent)
    /\ o.type = "contexts" =>
          Has(o, "contexts") /\ \A i \in DOMAIN o.contexts : ContextValid(o.contexts[i])
    /\ o.type = "action" => Has(o, "action") /\ ActionValid(o.action)
    /\ o.type = "answer" => Has(o, "text")
    /\ o.type = "error" => Has(o, "message")

\* The parsed event: defaults filled in, absent optional fields left absent.
SchemaParsed(o) ==
    IF o.type = "intent" THEN [type |-> "intent", intent |-> IntentParsed(o.intent)]
    ELSE IF o.type = "contexts" THEN
        [type |-> "contexts",
         contexts |-> [i \in DOMAIN o.contexts |-> ContextParsed(o.contexts[i])]]
    ELSE IF o.type = "action" THEN [type |-> "action", action |-> ActionParsed(o.action)]
    ELSE o

\* try { event = agentStreamEventSchema.parse(JSON.parse(chunk)) } catch { return }
DecodeEvent(chunk) ==
    LET j == JSONParse(chunk) IN
    IF j.ok /\ SchemaValid(j.value)
    THEN [ok |-> TRUE, event |-> SchemaParsed(j.value)]
    ELSE [ok |-> FALSE, event |-> [type |-> ""]]

\* ----------------------------------------------------- page: the snapshot
\* A nullable object is a sequence of length 0 (null) or 1.
\* The snapshot handleSend stores before it starts the stream; also the base
\* the updater falls back to when the stored snapshot is null.
InitialSnapshotIdle ==
    [status |-> "idle", answer |-> "", contexts |-> <<>>, intent |-> <<>>,
     action |-> <<>>, guardrails |-> <<>>, strategy |-> Null, subqueries |-> <<>>,
     model |-> Null, errorMessage |-> Null]

InitialSnapshot ==
    [status |-> "processing", answer |-> "", contexts |-> <<>>, intent |-> <<>>,
     action |-> <<>>, guardrails |-> <<>>, strategy |-> Null, subqueries |-> <<>>,
     model |-> Null, errorMessage |-> Null]

\* A send that keeps the snapshot an earlier send left behind.
KeepSnapshot(current) == IF current = <<>> THEN <<InitialSnapshot>> ELSE current

\* setStreamSnapshot({ status: "processing", ... }) at the start of a send:
\* a new object, whatever the current snapshot is.
FreshSnapshot(current) == <<InitialSnapshot>>

\* A fallback that never takes the event's value.
CoalesceKeepsBase(ev, key, base) == base

\* No fallback: the event's value, null when the event has none.
CoalesceEventOnly(ev, key, base) == Opt(ev, key)

\* event.key ?? base: the event's value unless it is absent or null
Coalesce(ev, key, base) == IF Has(ev, key) /\ ev[key] # Null THEN ev[key] ELSE base
CoalesceSeq(ev, key, base) == IF Has(ev, key) THEN ev[key] ELSE base

\* A finalisation that always completes.
DoneStatusAlwaysComplete(status) == "complete"

\* status: base.status === "error" ? "error" : "complete"  (case "done", onDone)
DoneStatus(status) == IF status = "error" THEN "error" ELSE "complete"

\* An updater that accumulates: contexts are appended, answer texts are
\* concatenated.
ReduceAccumulating(base, event) ==
    IF event.type = "status" THEN
        [base EXCEPT !.status = IF event.state = "processing" THEN "processing" ELSE base.status]
    ELSE IF event.type = "intent" THEN [base EXCEPT !.intent = <<event.intent>>]
    ELSE IF event.type = "contexts" THEN [base EXCEPT !.contexts = base.contexts \o event.contexts]
    ELSE IF event.type = "action" THEN [base EXCEPT !.action = <<event.action>>]
    ELSE IF event.type = "answer" THEN
        [base EXCEPT !.answer = IF base.answer = "" THEN event.text ELSE "appended",
                     !.strategy = Coalesce(event, "strategy", base.strategy),
                     !.subqueries = CoalesceSeq(event, "subqueries", base.subqueries),
                     !.model = Coalesce(event, "model", base.model),
                     !.guardrails = CoalesceSeq(event, "guardrails", base.guardrails),
                     !.status = "complete"]
    ELSE IF event.type = "error" THEN
        [base EXCEPT !.status = "error", !.errorMessage = event.message]
    ELSE IF event.type = "done" THEN [base EXCEPT !.status = DoneStatus(base.status)]
    ELSE base

\* The switch of the setStreamSnapshot updater in onMessage.
Reduce(base, event) ==
    IF event.type = "status" THEN
        [base EXCEPT !.status = IF event.state = "processing" THEN "processing" ELSE base.status]
    ELSE IF event.type = "intent" THEN [base EXCEPT !.intent = <<event.intent>>]
    ELSE IF event.type = "contexts" THEN [base EXCEPT !.contexts = event.contexts]
    ELSE IF event.type = "action" THEN [base EXCEPT !.action = <<event.action>>]
    ELSE IF event.type = "answer" THEN
        [base EXCEPT !.answer = event.text,
                     !.strategy = Coalesce(event, "strategy", base.strategy),
                     !.subqueries = CoalesceSeq(event, "subqueries", base.subqueries),
                     !.model = Coalesce(event, "model", base.model),
                     !.guardrails = CoalesceSeq(event, "guardrails", base.guardrails),
                     !.status = "complete"]
    ELSE IF event.type = "error" THEN
        [base EXCEPT !.status = "error", !.errorMessage = event.message]
    ELSE IF event.type = "done" THEN [base EXCEPT !.status = DoneStatus(base.status)]
    ELSE base

\* A parse failure that is shown to the user.
ParseFailureReported(ps) == [ps EXCEPT !.sendError = "Unparseable agent stream payload"]

\* catch (parseError) { console.warn(...); return; }
ParseFailure(ps) == ps

\* The page state the callbacks write: [snapshot, sendError, trace].
\* onMessage: (chunk) => { parse or return; setStreamSnapshot(updater) }
OnMessage(ps, chunk) ==
    LET d == DecodeEvent(chunk) IN
    IF ~d.ok THEN ParseFailure(ps)
    ELSE LET base == IF ps.snapshot = <<>> THEN InitialSnapshot ELSE ps.snapshot[1]
             post == Reduce(base, d.event)
         IN [snapshot |-> <<post>>,
             sendError |-> IF d.event.type = "error" THEN d.event.message ELSE ps.sendError,
             trace |-> Append(ps.trace, [by |-> d.event.type, ev |-> <<d.event>>,
                                         pre |-> <<base>>, post |-> <<post>>])]

\* current ? { ...current, status: "error", errorMessage: message } : current
MarkError(snapshot, message) ==
    IF snapshot = <<>> THEN snapshot
    ELSE <<[snapshot[1] EXCEPT !.status = "error", !.errorMessage = message]>>

\* An onError that does not single out the AbortError.
OnErrorUnfiltered(ps, error) ==
    LET message == IF error.message = "" THEN "Failed to stream agent response"
                   ELSE error.message
        post == MarkError(ps.snapshot, message)
    IN [snapshot |-> post, sendError |-> message,
        trace |-> Append(ps.trace, [by |-> "onError", ev |-> <<>>,
                                    pre |-> ps.snapshot, post |-> post])]

\* onError: (error) => { if not an AbortError: setSendError, mark the snapshot }
OnError(ps, error) ==
    IF IsAbortError(error) THEN ps
    ELSE LET message == IF error.message = "" THEN "Failed to stream agent response"
                        ELSE error.message
             post == MarkError(ps.snapshot, message)
         IN [snapshot |-> post, sendError |-> message,
             trace |-> Append(ps.trace, [by |-> "onError", ev |-> <<>>,
                                         pre |-> ps.snapshot, post |-> post])]

\* onDone: () => setStreamSnapshot(current => current ? {...} : current)
OnDone(ps) ==
    LET post == IF ps.snapshot = <<>> THEN ps.snapshot
                ELSE <<[ps.snapshot[1] EXCEPT !.status = DoneStatus(ps.snapshot[1].status)]>>
    IN [ps EXCEPT !.snapshot = post,
                  !.trace = Append(ps.trace, [by |-> "onDone", ev |-> <<>>,
                                              pre |-> ps.snapshot, post |-> post])]

RECURSIVE ApplyCallsReversed(_, _)
\* The callbacks applied last first.
ApplyCallsReversed(ps, cs) ==
    IF cs = <<>> THEN ps
    ELSE LET c == cs[Len(cs)]
             next == IF c.cb = "onMessage" THEN OnMessage(ps, c.payload)
                     ELSE IF c.cb = "onError" THEN OnError(ps, c.error)
                     ELSE OnDone(ps)
         IN ApplyCallsReversed(next, SubSeq(cs, 1, Len(cs) - 1))

RECURSIVE ApplyCalls(_, _)
\* The callbacks run synchronously inside stream, in the order it invokes them.
ApplyCalls(ps, cs) ==
    IF cs = <<>> THEN ps
    ELSE LET c == Head(cs)
             next == IF c.cb = "onMessage" THEN OnMessage(ps, c.payload)
                     ELSE IF c.cb = "onError" THEN OnError(ps, c.error)
                     ELSE OnDone(ps)
         IN ApplyCalls(next, Tail(cs))

\* ------------------------------------------------------ the server's bodies
\* One frame as the server writes it: "data: " payload "\n\n"
Frame(payload) == DataPrefix \o <<SP>> \o payload \o <<NL, NL>>

\* The frames a body of the text family is made of.
FrameMenu ==
    { DataPrefix \o <<SP, SP, LetterX, NL>> \o DataPrefix \o <<EAcute>>,
                                                     \* "data:  x" NL "data:e-acute"
      DataPrefix \o <<SP>> \o DoneSentinel,                    \* "data: [DONE]"
      DataPrefix \o ErrorSentinel,                             \* "data:[ERROR]"
      DataPrefix \o <<SP>> \o DoneSentinel \o <<SP, LetterX>>, \* "data: [DONE] x"
      <<58, LetterX, NL>> \o DataPrefix }                      \* ":x" NL "data:"

\* What follows the last frame: nothing, a line break, or the blank line.
Tails == {<<>>, <<NL>>, <<NL, NL>>}

SeqsUpTo(S, n) == UNION {[1..k -> S] : k \in 0..n}

RECURSIVE JoinFrames(_)
\* The frames, each separated from the next by the blank line "\n\n".
JoinFrames(fs) ==
    IF fs = <<>> THEN <<>>
    ELSE IF Len(fs) = 1 THEN fs[1]
    ELSE fs[1] \o <<NL, NL>> \o JoinFrames(Tail(fs))

TextBodies == {JoinFrames(fs) \o t : fs \in SeqsUpTo(FrameMenu, MaxFrames), t \in Tails}

\* The payloads of the event family: the JSON text of each wire object, and
\* one text that is not JSON (JSON.parse throws on it).
EventPayloadIds == DOMAIN WireObjects \cup {Len(WireObjects) + 1}

EventBodies ==
    {Concat([i \in DOMAIN es |-> Frame(JsonText(es[i]))]) :
        es \in SeqsUpTo(EventPayloadIds, MaxEvents)}

\* status{processing}, intent{create_task, 0.92}, contexts{1 item},
\* answer{text, strategy "informed"}; then nothing, a done event or "[DONE]".
ScenarioBodies ==
    {Frame(JsonText(1)) \o Frame(JsonText(3)) \o Frame(JsonText(4)) \o Frame(JsonText(6)) \o tail :
        tail \in {<<>>, Frame(JsonText(9)), Frame(DoneSentinel)}}

\* One event per body: answer{"Draft"} or error{"x"}.
ResendBodies == {Frame(JsonText(7)), Frame(JsonText(8))}

Bodies(f) ==
    IF f = "text" THEN TextBodies
    ELSE IF f = "events" THEN EventBodies
    ELSE IF f = "resend" THEN ResendBodies
    ELSE ScenarioBodies

\* How many sends a page of family f makes.
SendLimit(f) == IF f = "resend" THEN MaxSends ELSE 1

\* What the user may have typed into the composer: "", " ", "hi", " hi".
Messages == {<<>>, <<SP>>, <<104, 105>>, <<SP, 104, 105>>}

RECURSIVE TrimStart(_)
TrimStart(s) == IF s # <<>> /\ IsWhitespace(Head(s)) THEN TrimStart(Tail(s)) ELSE s
RECURSIVE TrimEnd(_)
TrimEnd(s) ==
    IF s # <<>> /\ IsWhitespace(s[Len(s)]) THEN TrimEnd(SubSeq(s, 1, Len(s) - 1)) ELSE s
\* messageContent.trim()
Trim(s) == TrimEnd(TrimStart(s))

\* ------------------------------------------------------------------- Init
NoAbort == [pc |-> "", at |-> 0]
NoLocks == [acquired |-> 0, released |-> 0]

InitFor(f) ==
    /\ family = f
    /\ tenantId \in BOOLEAN
    /\ mounted = TRUE
    /\ messageContent \in Messages
    /\ sendError = Null
    /\ isSending = FALSE
    /\ isStreaming = FALSE
    /\ streamController = Null
    /\ streamSnapshot = <<>>
    /\ content = <<>>
    /\ pc = "idle"
    /\ aborted = FALSE
    /\ text = <<>>
    /\ wire = <<>>
    /\ decoder = NewDecoder
    /\ buffer = <<>>
    /\ locks = NoLocks
    /\ outcome = "none"
    /\ thrown = NoError
    /\ calls = <<>>
    /\ handled = <<>>
    /\ decoded = <<>>
    /\ trace = <<>>
    /\ abortMark = NoAbort
    /\ cutInDelimiter = FALSE
    /\ cutInChar = FALSE
    /\ sends = 0
    /\ ending = "none"

Init == InitFor("text")
InitEvents == InitFor("events")
InitScenario == InitFor("scenario")
InitResend == InitFor("resend")

\* ---------------------------------------------------------------- actions
fixedVars == <<family, tenantId>>
pageVars == <<messageContent, sendError, isSending, isStreaming, streamSnapshot>>
localVars == <<wire, decoder, buffer>>
historyVars == <<text, locks, outcome, thrown, calls, handled, decoded, trace,
                 abortMark, cutInDelimiter, cutInChar, ending>>

\* The page state after the callbacks cs have run.
PageAfter(cs) ==
    ApplyCalls([snapshot |-> streamSnapshot, sendError |-> sendError, trace |-> trace], cs)

\* A submit button that is never disabled.
SubmitAlwaysEnabled(sending) == TRUE

\* <Button type="submit" disabled={isSending || ...}>: the form can be
\* submitted only while no send is in progress.
SubmitEnabled(sending) == ~sending

\* The user edits the composer; the textarea is disabled while isSending.
TypeMessage ==
    /\ mounted /\ ~isSending /\ sends < SendLimit(family)
    /\ \E m \in Messages \ {messageContent} : messageContent' = m
    /\ UNCHANGED <<fixedVars, localVars, historyVars, mounted, sendError, isSending,
                   isStreaming, streamController, streamSnapshot, content, pc, aborted, sends>>

\* handleSend, from the submit to the await of apiClient.stream (which runs
\* up to its await of fetch).
HandleSend ==
    /\ mounted /\ SubmitEnabled(isSending) /\ sends < SendLimit(family)
    /\ IF ~tenantId THEN
          /\ sendError' = "Select a tenant before sending messages."
          /\ UNCHANGED <<mounted, messageContent, isSending, isStreaming, streamController,
                         streamSnapshot, content, pc, aborted, sends>>
          /\ UNCHANGED <<fixedVars, localVars, historyVars>>
       ELSE IF Trim(messageContent) = <<>> THEN
          /\ sendError' = "Message cannot be empty."
          /\ UNCHANGED <<mounted, messageContent, isSending, isStreaming, streamController,
                         streamSnapshot, content, pc, aborted, sends>>
          /\ UNCHANGED <<fixedVars, localVars, historyVars>>
       ELSE
          /\ isSending' = TRUE
          /\ isStreaming' = TRUE
          /\ sendError' = Null
          /\ streamSnapshot' = FreshSnapshot(streamSnapshot)
          /\ content' = Trim(messageContent)
          /\ messageContent' = <<>>
          /\ streamController' = "ctl"
          /\ aborted' = FALSE
          /\ \E t \in Bodies(family) : text' = t /\ wire' = Utf8EncodeAll(t)
          /\ decoder' = NewDecoder
          /\ buffer' = <<>>
          /\ locks' = NoLocks
          /\ outcome' = "pending"
          /\ thrown' = NoError
          /\ calls' = <<>>
          /\ handled' = <<>>
          /\ decoded' = <<>>
          /\ trace' = <<>>
          /\ abortMark' = NoAbort
          /\ cutInDelimiter' = FALSE
          /\ cutInChar' = FALSE
          /\ ending' = "none"
          /\ sends' = sends + 1
          /\ pc' = "fetch"
          /\ UNCHANGED <<fixedVars, mounted>>

\* The promise of stream settles, in the way "how", with the callbacks cs
\* still to run; the locals of the call are gone.  handleSend resumes: its
\* catch (unless the error is an AbortError), then its finally up to the await
\* of mutateMessages().
StreamEnds(how, cs, out, err) ==
    \E ps \in {PageAfter(cs)} :
    LET failed == out = "rejected" /\ ~IsAbortError(err)
        post == MarkError(ps.snapshot, err.message)
    IN /\ ending' = how
       /\ calls' = calls \o cs
       /\ outcome' = out
       /\ thrown' = err
       /\ wire' = <<>>
       /\ decoder' = NewDecoder
       /\ buffer' = <<>>
       /\ streamSnapshot' = IF failed THEN post ELSE ps.snapshot
       /\ sendError' = IF failed THEN err.message ELSE ps.sendError
       /\ messageContent' = IF failed THEN content ELSE messageContent
       /\ trace' = IF failed
                   THEN Append(ps.trace, [by |-> "catch", ev |-> <<>>,
                                          pre |-> ps.snapshot, post |-> post])
                   ELSE ps.trace
       /\ streamController' = Null
       /\ pc' = "mutateMessages"
       /\ UNCHANGED <<fixedVars, mounted, isSending, isStreaming, content,
                      aborted, abortMark, sends, text>>

\* How a call that left the inner try with error e ended.
EndingOf(e) ==
    IF e = StreamCompleteError THEN "done"
    ELSE IF e = StreamReportedError THEN "error"
    ELSE IF IsAbortError(e) THEN "readAborted"
    ELSE "readFailed"

\* fetch resolves with a response: not ok, ok without a body, or ok with one.
FetchResolve ==
    /\ pc = "fetch" /\ ~aborted
    /\ \E kind \in {"ok", "nobody", "status", "nostatus"} :
         IF kind = "ok" THEN
            /\ locks' = [locks EXCEPT !.acquired = @ + 1]
            /\ decoder' = NewDecoder
            /\ buffer' = <<>>
            /\ pc' = "read"
            /\ UNCHANGED <<fixedVars, pageVars, mounted, streamController, content,
                           aborted, sends, wire, text, outcome, thrown, calls, handled,
                           decoded, trace, abortMark, cutInDelimiter, cutInChar, ending>>
         ELSE
            LET e == IF kind = "nobody" THEN NoBodyError
                     ELSE IF kind = "status" THEN HttpError("Internal Server Error")
                     ELSE HttpError("")
            IN /\ StreamEnds(IF kind = "nobody" THEN "nobody" ELSE "http",
                             <<ErrorCall(e)>> \o OuterCatch(e), "rejected", e)
               /\ UNCHANGED <<locks, handled, decoded, cutInDelimiter, cutInChar>>

\* What a pending fetch() or read() rejects with.
Rejections == IF aborted THEN {AbortError} ELSE NetworkErrors

\* fetch rejects: the connection failed, or the signal was aborted.
FetchReject ==
    /\ pc = "fetch"
    /\ \E e \in Rejections :
         /\ StreamEnds(IF IsAbortError(e) THEN "fetchAborted" ELSE "fetchFailed",
                       OuterCatch(e), "rejected", e)
         /\ UNCHANGED <<locks, handled, decoded, cutInDelimiter, cutInChar>>

\* The index just past the first "\n\n" of w, or Len(w) when there is none.
FrameEnd(w) == LET b == IndexOfBoundary(w) IN IF b = 0 THEN Len(w) ELSE b + 1

\* The sizes the next chunk may have: any, except that in the event family
\* the server writes one frame per chunk and the chunks arrive as written
\* or all that is left arrives as one chunk.
ChunkSizes == IF family = "events" THEN {FrameEnd(wire), Len(wire)} ELSE 1..Len(wire)

\* reader.read() resolves with a chunk: decode, append, flushBuffer().
ReadChunk ==
    /\ pc = "read" /\ ~aborted /\ wire # <<>>
    /\ \E n \in ChunkSizes :
       \E d \in {DecodeChunk(decoder, SubSeq(wire, 1, n))} :
       \E r \in {FlushBuffer(AppendToBuffer(buffer, d.out), FALSE)} :
         LET rest == SliceFrom(wire, n)
         IN /\ decoded' = decoded \o d.out
            /\ handled' = handled \o r.handled
            /\ cutInChar' = (cutInChar \/ d.st.needed # 0)
            /\ cutInDelimiter' =
                 (cutInDelimiter \/ (/\ r.threw = NoError
                                     /\ r.buffer # <<>> /\ r.buffer[Len(r.buffer)] = NL
                                     /\ rest # <<>> /\ rest[1] = NL))
            /\ IF r.threw = NoError THEN
                  \E ps \in {PageAfter(r.calls)} :
                     /\ wire' = rest
                     /\ decoder' = d.st
                     /\ buffer' = r.buffer
                     /\ calls' = calls \o r.calls
                     /\ streamSnapshot' = ps.snapshot
                     /\ sendError' = ps.sendError
                     /\ trace' = ps.trace
                     /\ UNCHANGED <<fixedVars, mounted, messageContent, isSending,
                                    isStreaming, streamController, content, pc, aborted,
                                    text, locks, outcome, thrown, abortMark, sends, ending>>
               ELSE
                  LET end == LeaveInnerTry(r.threw)
                  IN /\ StreamEnds(EndingOf(r.threw), r.calls \o end.calls,
                                   end.outcome, end.thrown)
                     /\ locks' = ReleaseLock(locks, r.threw)

\* reader.read() resolves with done: flushBuffer(true), onDone, break.
ReadDone ==
    /\ pc = "read" /\ ~aborted /\ wire = <<>>
    /\ \E r \in {FlushBuffer(buffer, TRUE)} :
       LET end == LeaveInnerTry(r.threw)
       IN /\ handled' = handled \o r.handled
          /\ locks' = ReleaseLock(locks, r.threw)
          /\ IF r.threw = NoError
             THEN StreamEnds("eof", r.calls \o <<DoneCall>>, "resolved", NoError)
             ELSE StreamEnds(EndingOf(r.threw), r.calls \o end.calls,
                             end.outcome, end.thrown)
          /\ UNCHANGED <<decoded, cutInDelimiter, cutInChar>>

\* reader.read() rejects: the connection failed, or the signal was aborted.
ReadReject ==
    /\ pc = "read"
    /\ \E e \in Rejections :
         LET end == LeaveInnerTry(e)
         IN /\ StreamEnds(EndingOf(e), end.calls, end.outcome, end.thrown)
            /\ locks' = ReleaseLock(locks, e)
            /\ UNCHANGED <<handled, decoded, cutInDelimiter, cutInChar>>

\* handleSend moves past the settled call: what the history variables recorded
\* about that call is dropped, the page state stays.
DropHistory ==
    /\ text' = <<>>
    /\ locks' = NoLocks
    /\ outcome' = "none"
    /\ thrown' = NoError
    /\ calls' = <<>>
    /\ handled' = <<>>
    /\ decoded' = <<>>
    /\ trace' = <<>>
    /\ abortMark' = NoAbort
    /\ cutInDelimiter' = FALSE
    /\ cutInChar' = FALSE
    /\ ending' = "none"

\* await mutateMessages() resolves.
MutateMessagesResolve ==
    /\ pc = "mutateMessages"
    /\ pc' = "mutateSessions"
    /\ DropHistory
    /\ UNCHANGED <<fixedVars, pageVars, localVars, mounted, streamController, content,
                   aborted, sends>>

\* await mutateSessions() resolves: setStreamSnapshot(null), then the flags.
MutateSessionsResolve ==
    /\ pc = "mutateSessions"
    /\ streamSnapshot' = <<>>
    /\ isStreaming' = FALSE
    /\ isSending' = FALSE
    /\ pc' = "idle"
    /\ UNCHANGED <<fixedVars, localVars, historyVars, mounted, messageContent, sendError,
                   streamController, content, aborted, sends>>

\* A refresh failure that leaves the flags set.
RefreshRejectKeepsSending ==
    /\ pc \in {"mutateMessages", "mutateSessions"}
    /\ sendError' = IF sendError = Null THEN "Failed to refresh conversation" ELSE sendError
    /\ pc' = "idle"
    /\ DropHistory
    /\ UNCHANGED <<fixedVars, localVars, mounted, messageContent, streamController,
                   streamSnapshot, content, aborted, sends, isStreaming, isSending>>

\* mutateMessages() or mutateSessions() rejects: catch (refreshError), flags.
RefreshReject ==
    /\ pc \in {"mutateMessages", "mutateSessions"}
    /\ sendError' = IF sendError = Null THEN "Failed to refresh conversation" ELSE sendError
    /\ isStreaming' = FALSE
    /\ isSending' = FALSE
    /\ pc' = "idle"
    /\ DropHistory
    /\ UNCHANGED <<fixedVars, localVars, mounted, messageContent, streamController,
                   streamSnapshot, content, aborted, sends>>

\* The cleanup of the unmount effect: abort the stored controller, clear it.
Unmount ==
    /\ mounted
    /\ mounted' = FALSE
    /\ IF streamController # Null
       THEN /\ aborted' = TRUE
            /\ streamController' = Null
            /\ abortMark' = [pc |-> pc, at |-> Len(calls)]
       ELSE UNCHANGED <<aborted, streamController, abortMark>>
    /\ UNCHANGED <<fixedVars, pageVars, localVars, content, pc, sends,
                   text, locks, outcome, thrown, calls, handled, decoded, trace,
                   cutInDelimiter, cutInChar, ending>>

Next ==
    \/ TypeMessage
    \/ HandleSend
    \/ FetchResolve
    \/ FetchReject
    \/ ReadChunk
    \/ ReadDone
    \/ ReadReject
    \/ MutateMessagesResolve
    \/ MutateSessionsResolve
    \/ RefreshReject
    \/ Unmount

Spec == Init /\ [][Next]_vars
SpecEvents == InitEvents /\ [][Next]_vars
SpecScenario == InitScenario /\ [][Next]_vars
SpecResend == InitResend /\ [][Next]_vars

\* The promises handleSend awaits settle: fetch, then each reader.read(), then
\* the two refreshes.  What the user does (typing, submitting, leaving the
\* page) is not forced.
Settles ==
    /\ WF_vars(FetchResolve \/ FetchReject)
    /\ WF_vars(ReadChunk \/ ReadDone \/ ReadReject)
    /\ WF_vars(MutateMessagesResolve \/ MutateSessionsResolve \/ RefreshReject)
SpecLive == InitResend /\ [][Next]_vars /\ Settles

\* ================================================================= claims
IsPrefix(a, b) == Len(a) <= Len(b) /\ SubSeq(b, 1, Len(a)) = a
Segments(hs) == [i \in DOMAIN hs |-> hs[i].segment]
CallsOf(cb) == {i \in DOMAIN calls : calls[i].cb = cb}
\* The callbacks invoked after the abort.
AfterAbort(cb) == {i \in CallsOf(cb) : i > abortMark.at}
EndedByAbort == ending \in {"fetchAborted", "readAborted"}
TraceKinds == [i \in DOMAIN trace |-> trace[i].by]

\* C1: once the snapshot status is complete or error, no later event of the
\* stream sets it back to processing.
C1_TerminalStatusStays ==
    \A i \in DOMAIN trace :
        trace[i].pre # <<>> /\ trace[i].pre[1].status \in {"complete", "error"}
            => trace[i].post[1].status # "processing"

\* C2: once the snapshot status is error, no later event of the same stream
\* (a late answer included) makes it complete.
C2_ErrorIsSticky ==
    \A i, j \in DOMAIN trace :
        i < j /\ trace[i].post # <<>> /\ trace[i].post[1].status = "error"
            => trace[j].post[1].status # "complete"

\* C3: an abort while stream is reading the body invokes onError exactly once,
\* with the AbortError, and neither onMessage nor onDone after the abort.
C3_CancelExclusive ==
    ending = "readAborted" =>
        /\ Cardinality(AfterAbort("onError")) = 1
        /\ \A i \in AfterAbort("onError") : IsAbortError(calls[i].error)
        /\ AfterAbort("onMessage") = {}
        /\ AfterAbort("onDone") = {}

\* C4 as stated: stream never invokes onError for an abort.
C4_AbortNotViaOnError == EndedByAbort => AfterAbort("onError") = {}

\* C4 amended: an abort is reported through onError, and every onError call
\* made for it carries the AbortError DOMException, which is also what the
\* promise rejects with; no other failure is reported with that marker.
C4_AbortCarriesMarker ==
    /\ EndedByAbort =>
          /\ AfterAbort("onError") # {}
          /\ \A i \in AfterAbort("onError") : IsAbortError(calls[i].error)
          /\ outcome = "rejected" /\ IsAbortError(thrown)
    /\ \A i \in CallsOf("onError") :
          IsAbortError(calls[i].error) => abortMark # NoAbort /\ i > abortMark.at

C4_Witness ==
    /\ ending = "readAborted"
    /\ CallsOf("onMessage") # {}
    /\ AfterAbort("onError") # {}

\* C5: in one call of stream, onDone and onError are never both invoked.
C5_DoneErrorExclusive == CallsOf("onDone") = {} \/ CallsOf("onError") = {}

C5_Witness ==
    /\ ending = "error"
    /\ CallsOf("onMessage") # {}
    /\ CallsOf("onError") # {}

\* The call of stream when the whole body arrives as one chunk: one read with
\* all the bytes (r, the result of its flushBuffer()), then the read that
\* reports done (f, the result of its flushBuffer(true)).
SingleFragment(r, f) ==
    IF r.threw # NoError
    THEN [handled |-> r.handled, calls |-> r.calls \o LeaveInnerTry(r.threw).calls]
    ELSE IF f.threw # NoError
    THEN [handled |-> r.handled \o f.handled,
          calls |-> r.calls \o f.calls \o LeaveInnerTry(f.threw).calls]
    ELSE [handled |-> r.handled \o f.handled,
          calls |-> r.calls \o f.calls \o <<DoneCall>>]

\* C6: however the body is split into chunks, the frames handed to
\* handlePayload and the callbacks invoked are those of the single-chunk run:
\* a prefix of them while the stream is being read, all of them once it ended
\* by a sentinel or the end of the body.
C6_FragmentationInvariant ==
    locks.acquired = 1 =>
        \E s \in {DecodeChunk(NewDecoder, Utf8EncodeAll(text)).out} :
        \E r \in {FlushBuffer(AppendToBuffer(<<>>, s), FALSE)} :
        \E f \in {FlushBuffer(r.buffer, TRUE)} :
        \E whole \in {SingleFragment(r, f)} :
            /\ IsPrefix(Segments(handled), Segments(whole.handled))
            /\ pc = "read" => IsPrefix(calls, whole.calls)
            /\ ending \in {"eof", "done", "error"} =>
                  /\ Segments(handled) = Segments(whole.handled)
                  /\ calls = whole.calls

C6_Witness ==
    /\ ending = "eof"
    /\ cutInDelimiter
    /\ Len(handled) >= 2
    /\ CallsOf("onMessage") # {}

\* C7: a multi-byte character whose bytes are split between two chunks reaches
\* the buffer intact: the decoded text is always a prefix of the text sent,
\* holds no U+FFFD, and accounts for every byte read.
C7_MultiByteIntact ==
    /\ IsPrefix(decoded, text)
    /\ \A i \in DOMAIN decoded : decoded[i] # Replacement
    /\ pc = "read" /\ decoder.needed = 0 => Utf8EncodeAll(decoded) \o wire = Utf8EncodeAll(text)
    /\ ending = "eof" => decoded = text

C7_Witness ==
    /\ ending = "eof"
    /\ cutInChar
    /\ decoded = text
    /\ \E i \in DOMAIN decoded : decoded[i] = EAcute

\* C8: a payload is a sentinel only when it equals "[DONE]" or "[ERROR]"; any
\* other non-empty payload goes to onMessage and handlePayload returns.
C8_SentinelExact ==
    \A i \in DOMAIN handled :
        LET p == ExtractPayload(handled[i].segment) IN
        /\ handled[i].effect = "onDone" <=> p = DoneSentinel
        /\ handled[i].effect = "onError" <=> p = ErrorSentinel
        /\ p # <<>> /\ p # DoneSentinel /\ p # ErrorSentinel =>
              /\ handled[i].effect = "onMessage"
              /\ handled[i].threw = NoError
              /\ \E k \in CallsOf("onMessage") : calls[k].payload = p

C8_Witness ==
    \E i \in DOMAIN handled :
        /\ Contains(ExtractPayload(handled[i].segment), DoneSentinel)
        /\ handled[i].effect = "onMessage"
        /\ i < Len(handled)

\* C9: a done event and the onDone callback leave the status error when it is
\* error and make it complete otherwise; [error, done] ends in error and
\* [answer, done] in complete.
C9_DoneFinalises ==
    /\ \A i \in DOMAIN trace :
          trace[i].by \in {"done", "onDone"} /\ trace[i].pre # <<>> =>
              trace[i].post[1].status =
                  IF trace[i].pre[1].status = "error" THEN "error" ELSE "complete"
    /\ Len(trace) >= 2 /\ trace[1].by = "error" /\ trace[2].by = "done" =>
          trace[2].post[1].status = "error"
    /\ Len(trace) >= 2 /\ trace[1].by = "answer" /\ trace[2].by = "done" =>
          trace[2].post[1].status = "complete"

C9_Witness ==
    /\ ending = "eof"
    /\ TraceKinds = <<"error", "done", "onDone">>
    /\ streamSnapshot[1].status = "error"

\* The snapshot the end-to-end scenario is to yield.
ScenarioResult(snap) ==
    /\ snap.status = "complete"
    /\ snap.intent # <<>> /\ snap.intent[1].intent = "create_task"
    /\ snap.intent[1].confidence = 92
    /\ Len(snap.contexts) = 1 /\ snap.contexts[1].text = "doc A"
    /\ snap.answer = "Created task #12"
    /\ snap.strategy = "informed"

\* C10: status{processing}, intent, contexts (one item), answer{T, "informed"}
\* applied in order to the snapshot created at send yield status complete,
\* that intent, that one context, answer T and strategy "informed".
C10_EndToEndFold ==
    /\ Len(trace) >= 4 /\ SubSeq(TraceKinds, 1, 4) = <<"status", "intent", "contexts", "answer">> =>
          /\ trace[1].pre = <<InitialSnapshot>>
          /\ ScenarioResult(trace[4].post[1])
    /\ ending \in {"eof", "done"} => ScenarioResult(streamSnapshot[1])

C10_Witness ==
    /\ ending = "eof"
    /\ TraceKinds = <<"status", "intent", "contexts", "answer", "onDone">>
    /\ ScenarioResult(streamSnapshot[1])

\* A content payload the page cannot decode: not JSON, or none of the seven
\* event shapes.
Malformed(p) == ~JSONParse(p).ok \/ ~SchemaValid(JSONParse(p).value)
IsMessageCall(c) == c.cb = "onMessage"
IsWellFormedCall(c) == c.cb = "onMessage" /\ ~Malformed(c.payload)
IsEventEntry(t) == t.by \in EventTypes
\* The snapshot the updates recorded in the trace leave behind.
TracedSnapshot == IF trace = <<>> THEN <<InitialSnapshot>> ELSE trace[Len(trace)].post
StreamObserved == pc \in {"read", "mutateMessages"}

\* C11: a payload that is not JSON or fits none of the seven event shapes is
\* dropped by onMessage: it updates neither the snapshot nor the send error,
\* causes no onError, and the frames after it are still processed.
C11_FailOpen ==
    /\ Len(SelectSeq(trace, IsEventEntry)) = Len(SelectSeq(calls, IsWellFormedCall))
    /\ \A k \in 2..Len(trace) : trace[k].pre = trace[k - 1].post
    /\ StreamObserved => streamSnapshot = TracedSnapshot
    /\ StreamObserved /\ CallsOf("onError") = {} /\ outcome # "rejected"
          /\ (\A k \in DOMAIN trace : trace[k].by # "error")
          => sendError = Null
    /\ pc = "read" => CallsOf("onError") = {}
    /\ ending = "eof" =>
          Len(text) = Len(Frame(JsonText(1))) * Len(SelectSeq(calls, IsMessageCall))

C11_Witness ==
    /\ ending = "eof"
    /\ \E i, j \in CallsOf("onMessage") :
          i < j /\ Malformed(calls[i].payload) /\ ~Malformed(calls[j].payload)
    /\ TraceKinds = <<"answer", "onDone">>
    /\ sendError = Null
    /\ streamSnapshot[1].status = "complete"

\* C12: the reducer returns a snapshot for each of the seven event variants
\* and writes nothing but the snapshot; the send error in particular is not
\* written while events are applied.
C12_ReducerPureTotal ==
    /\ \A k \in DOMAIN trace :
          trace[k].by \in EventTypes =>
              /\ trace[k].post # <<>>
              /\ trace[k].post[1].status \in {"processing", "complete", "error"}
    /\ pc = "read" => sendError = Null

\* C13: a response that is not 2xx makes stream call onError and reject,
\* with an error that has a message, without a reader, without decoding a
\* frame, and without onMessage or onDone.
C13_HttpFailureBypassesDecoder ==
    ending = "http" =>
        /\ CallsOf("onError") # {}
        /\ \A i \in CallsOf("onError") : calls[i].error = thrown
        /\ outcome = "rejected" /\ thrown.message # ""
        /\ locks = NoLocks
        /\ handled = <<>> /\ decoded = <<>>
        /\ CallsOf("onMessage") = {} /\ CallsOf("onDone") = {}

C13_Witness ==
    /\ ending = "http"
    /\ thrown.message = "Stream request failed"
    /\ CallsOf("onError") # {}
    /\ text # <<>>

\* C14: a call that obtained a reader releases its lock exactly once, however
\* the read loop is left; a call that failed before obtaining one releases
\* nothing; while reading the lock is held.
C14_ReaderReleasedOnce ==
    /\ locks.acquired <= 1 /\ locks.released <= locks.acquired
    /\ pc = "read" => locks.acquired = 1 /\ locks.released = 0
    /\ ending \in {"done", "error", "eof", "readFailed", "readAborted"} =>
          locks.acquired = 1 /\ locks.released = 1
    /\ ending \in {"http", "nobody", "fetchFailed", "fetchAborted"} => locks = NoLocks

C14_Witness ==
    /\ ending = "readAborted"
    /\ locks.acquired = 1 /\ locks.released = 1
    /\ handled # <<>>

RECURSIVE FoldCalls(_, _)
\* The snapshot after the well-formed onMessage payloads among cs, applied
\* in order to snap.
FoldCalls(snap, cs) ==
    IF cs = <<>> THEN snap
    ELSE IF IsWellFormedCall(Head(cs))
         THEN FoldCalls(Reduce(snap, SchemaParsed(JSONParse(Head(cs).payload).value)), Tail(cs))
         ELSE FoldCalls(snap, Tail(cs))

\* C16: every send starts from a fresh snapshot, and while a stream is read
\* the snapshot is the fold of that stream's own events over the fresh
\* snapshot: nothing of an earlier send is in it.
C16_SnapshotPerStream ==
    /\ pc = "fetch" => streamSnapshot = <<InitialSnapshot>>
    /\ pc = "read" => streamSnapshot = <<FoldCalls(InitialSnapshot, calls)>>
    /\ trace # <<>> => trace[1].pre = <<InitialSnapshot>>

C16_Witness ==
    /\ sends = 2
    /\ pc = "read"
    /\ TraceKinds = <<"answer">>
    /\ streamSnapshot[1].status = "complete"
    /\ streamSnapshot[1].errorMessage = Null

\* C17 as stated: the snapshot a send creates has status idle.
C17_CreatedIdle ==
    pc = "fetch" => streamSnapshot # <<>> /\ streamSnapshot[1].status = "idle"

\* C17 amended: the snapshot a send creates has status processing, an empty
\* answer, no contexts, no intent and no action; a snapshot never has status
\* idle, and its status leaves processing only by a recorded update (an
\* event, onError, onDone or handleSend's catch).
C17_CreatedProcessing ==
    /\ pc = "fetch" =>
          /\ streamSnapshot # <<>>
          /\ streamSnapshot[1].status = "processing"
          /\ streamSnapshot[1].answer = ""
          /\ streamSnapshot[1].contexts = <<>>
          /\ streamSnapshot[1].intent = <<>>
          /\ streamSnapshot[1].action = <<>>
    /\ streamSnapshot # <<>> =>
          streamSnapshot[1].status \in {"processing", "complete", "error"}
    /\ StreamObserved /\ streamSnapshot # <<>> /\ streamSnapshot[1].status # "processing" =>
          trace # <<>> /\ trace[Len(trace)].post = streamSnapshot

C17_Witness ==
    /\ pc = "fetch"
    /\ isSending
    /\ streamSnapshot = <<InitialSnapshot>>

\* C18: once handleSend has finished, whatever the outcome, the snapshot is
\* null.
C18_SnapshotDiscarded == pc = "idle" => streamSnapshot = <<>>

\* C19: the error sentinel is reported by onError and the call of stream
\* then completes without rejecting.
C19_SentinelErrorFinalises ==
    ending = "error" => CallsOf("onError") # {} /\ outcome = "resolved"

\* C20: a stream ended by the caller's abort leaves the send error unset,
\* the snapshot status not error and the composer empty; a transport
\* failure sets the send error, marks the snapshot and restores the text.
C20_CancelNotVisible ==
    /\ EndedByAbort =>
          /\ sendError = Null
          /\ messageContent = <<>>
          /\ streamSnapshot # <<>> /\ streamSnapshot[1].status # "error"
          /\ \A k \in DOMAIN trace : trace[k].by \notin {"onError", "catch"}
    /\ ending \in {"fetchFailed", "readFailed"} =>
          /\ sendError # Null /\ sendError = thrown.message
          /\ messageContent = content
          /\ streamSnapshot # <<>> /\ streamSnapshot[1].status = "error"

C20_Witness ==
    /\ ending = "readAborted"
    /\ ~mounted
    /\ sendError = Null
    /\ CallsOf("onError") # {}
    /\ streamSnapshot[1].status = "processing"

RECURSIVE BodyFrames(_)
\* The frames of a body that a blank line terminates, in order.
BodyFrames(s) ==
    LET b == IndexOfBoundary(s) IN
    IF b = 0 THEN <<>> ELSE <<SubSeq(s, 1, b - 1)>> \o BodyFrames(SliceFrom(s, b + 1))

RECURSIVE BodyResidual(_)
\* What follows the last blank line of a body.
BodyResidual(s) ==
    LET b == IndexOfBoundary(s) IN IF b = 0 THEN s ELSE BodyResidual(SliceFrom(s, b + 1))

\* The frames of a body: the terminated ones, then what is left if it is not
\* blank.
AllFrames(s) ==
    BodyFrames(s) \o (IF TrimNonEmpty(BodyResidual(s)) THEN <<BodyResidual(s)>> ELSE <<>>)

RECURSIVE ContentPayloads(_)
\* The content payloads of the frames fs, up to the first sentinel.
ContentPayloads(fs) ==
    IF fs = <<>> THEN <<>>
    ELSE LET p == ExtractPayload(Head(fs)) IN
         IF p = DoneSentinel \/ p = ErrorSentinel THEN <<>>
         ELSE IF p = <<>> THEN ContentPayloads(Tail(fs))
         ELSE <<p>> \o ContentPayloads(Tail(fs))

\* The payloads onMessage was called with, in call order.
MessagePayloads ==
    LET ms == SelectSeq(calls, IsMessageCall) IN [k \in DOMAIN ms |-> ms[k].payload]

\* C21: onMessage receives the content payloads in the order of their frames
\* in the body, each once, and the well-formed ones are applied to the
\* snapshot in that order, each update starting from the result of the one
\* before.
C21_ArrivalOrder ==
    /\ IsPrefix(MessagePayloads, ContentPayloads(AllFrames(text)))
    /\ ending = "eof" => MessagePayloads = ContentPayloads(AllFrames(text))
    /\ LET wf == SelectSeq(calls, IsWellFormedCall)
           evs == SelectSeq(trace, IsEventEntry)
       IN /\ Len(evs) = Len(wf)
          /\ \A k \in DOMAIN evs :
                /\ evs[k].ev = <<SchemaParsed(JSONParse(wf[k].payload).value)>>
                /\ evs[k].post = <<Reduce(evs[k].pre[1], evs[k].ev[1])>>
    /\ \A k \in 2..Len(trace) : trace[k - 1].post = trace[k].pre

C21_Witness ==
    /\ ending = "eof"
    /\ TraceKinds = <<"intent", "answer", "onDone">>
    /\ Len(MessagePayloads) = 2
    /\ streamSnapshot[1].intent # <<>>
    /\ streamSnapshot[1].answer = "Draft"

\* The kind of a frame, by its extracted payload.
FrameKind(segment) ==
    LET p == ExtractPayload(segment) IN
    IF p = <<>> THEN "Empty"
    ELSE IF p = DoneSentinel THEN "CompletionSentinel"
    ELSE IF p = ErrorSentinel THEN "ErrorSentinel"
    ELSE "Content"

\* C22: handlePayload acts on the one kind of its frame: no callback for an
\* empty payload, only onDone for "[DONE]", only onError for "[ERROR]", only
\* onMessage (with the payload) for content.
C22_OneKindPerFrame ==
    \A i \in DOMAIN handled :
        LET h == handled[i]
            k == FrameKind(h.segment)
        IN /\ k = "Empty" => h.calls = <<>> /\ h.threw = NoError
           /\ k = "CompletionSentinel" => h.calls = <<DoneCall>>
           /\ k = "ErrorSentinel" => Len(h.calls) = 1 /\ h.calls[1].cb = "onError"
           /\ k = "Content" =>
                 h.calls = <<MessageCall(ExtractPayload(h.segment))>> /\ h.threw = NoError

C22_Witness ==
    \E i, j \in DOMAIN handled :
        /\ i < j
        /\ FrameKind(handled[i].segment) = "Empty"
        /\ Contains(handled[i].segment, DataPrefix)
        /\ FrameKind(handled[j].segment) = "Content"

\* C23: when the reader reports done, text left in the buffer is handled as
\* one final frame if it holds a non-whitespace character and as none
\* otherwise; onDone follows the onMessage of that frame, and is the only
\* callback when the frame is empty or there is none; a final "[DONE]" gives
\* its one onDone, a final "[ERROR]" no onDone.
C23_FlushAtEnd ==
    [][ (pc = "read" /\ wire = <<>> /\ ending' \in {"eof", "done", "error"}) =>
          LET newHandled == SubSeq(handled', Len(handled) + 1, Len(handled'))
              newCalls == SubSeq(calls', Len(calls) + 1, Len(calls'))
              k == FrameKind(buffer)
          IN IF TrimNonEmpty(buffer)
             THEN /\ Segments(newHandled) = <<buffer>>
                  /\ k = "Content" =>
                        newCalls = <<MessageCall(ExtractPayload(buffer)), DoneCall>>
                  /\ k = "Empty" => newCalls = <<DoneCall>>
                  /\ k = "CompletionSentinel" =>
                        newCalls = <<DoneCall>> /\ outcome' = "resolved"
                  /\ k = "ErrorSentinel" =>
                        \A c \in DOMAIN newCalls : newCalls[c].cb = "onError"
             ELSE newHandled = <<>> /\ newCalls = <<DoneCall>> ]_vars

C23_Witness ==
    /\ ending = "eof"
    /\ text # <<>> /\ text[Len(text)] # NL
    /\ handled # <<>> /\ handled[Len(handled)].segment = BodyResidual(text)
    /\ Len(calls) >= 2 /\ calls[Len(calls) - 1].cb = "onMessage"
    /\ calls[Len(calls)].cb = "onDone"

\* C24: a frame with payload "[DONE]" ends the call at once: onDone once and
\* last, nothing handled after it, no onMessage for a later frame, no
\* onError, and the promise resolves.
C24_DoneShortCircuits ==
    /\ \A i \in DOMAIN handled :
          handled[i].effect = "onDone" => i = Len(handled) /\ ending = "done"
    /\ ending = "done" =>
          /\ outcome = "resolved" /\ pc # "read"
          /\ Cardinality(CallsOf("onDone")) = 1
          /\ calls[Len(calls)].cb = "onDone"
          /\ CallsOf("onError") = {}
          /\ handled[Len(handled)].effect = "onDone"
          /\ MessagePayloads = ContentPayloads(AllFrames(text))

C24_Witness ==
    /\ ending = "done"
    /\ Len(AllFrames(text)) > Len(handled)
    /\ FrameKind(AllFrames(text)[Len(handled) + 1]) = "Content"
    /\ outcome = "resolved"

\* What a data line contributes: the line without "data:" and without one
\* whitespace character after it, if there is one.
LineContent(line) ==
    LET r == SubSeq(line, Len(DataPrefix) + 1, Len(line))
    IN IF r # <<>> /\ IsWhitespace(r[1]) THEN SubSeq(r, 2, Len(r)) ELSE r

\* C25: the payload given to onMessage is the frame's lines that start with
\* "data:", in order, each without the prefix and at most one whitespace
\* character after it, joined with "\n"; other lines contribute nothing.
C25_PayloadExtraction ==
    \A i \in DOMAIN handled :
        LET ls == SplitLines(handled[i].segment)
            idx == {j \in DOMAIN ls : StartsWith(ls[j], DataPrefix)}
        IN /\ handled[i].effect = "onMessage" =>
                LET ps == SplitLines(handled[i].calls[1].payload)
                IN /\ Len(ps) = Cardinality(idx)
                   /\ \A j \in idx :
                         ps[Cardinality({m \in idx : m <= j})] = LineContent(ls[j])
           /\ handled[i].effect = "none" => \A j \in idx : LineContent(ls[j]) = <<>>

C25_Witness ==
    \E i \in DOMAIN handled :
        /\ Len(SplitLines(handled[i].segment)) = 2
        /\ handled[i].calls = <<MessageCall(<<SP, LetterX, NL, EAcute>>)>>

\* C26: an intent, contexts or action event replaces its own snapshot field
\* with the event's payload (contexts wholesale) and leaves every other
\* field unchanged.
C26_FullReplace ==
    \A i \in DOMAIN trace :
        trace[i].by \in {"intent", "contexts", "action"} =>
            LET pre == trace[i].pre[1]
                post == trace[i].post[1]
                e == trace[i].ev[1]
                field == trace[i].by
            IN /\ DOMAIN post = DOMAIN pre
               /\ post[field] = (IF field = "contexts" THEN e.contexts ELSE <<e[field]>>)
               /\ \A f \in DOMAIN pre \ {field} : post[f] = pre[f]

C26_Witness ==
    \E i, j \in DOMAIN trace :
        /\ i < j
        /\ trace[i].by = "contexts" /\ trace[j].by = "contexts"
        /\ trace[j].pre[1].contexts # <<>>
        /\ Len(trace[j].post[1].contexts) = 1

\* The trace entries of answer events.
AnswerEntries == {i \in DOMAIN trace : trace[i].by = "answer"}

\* C27 as stated: an answer event sets answer to its text and strategy,
\* subqueries, model and guardrails to the event's values.
C27_AnswerTakesEventValues ==
    \A i \in AnswerEntries :
        LET post == trace[i].post[1]
            e == trace[i].ev[1]
        IN /\ post.answer = e.text
           /\ \A f \in {"strategy", "model"} : post[f] = Opt(e, f)
           /\ \A f \in {"subqueries", "guardrails"} : Has(e, f) => post[f] = e[f]

\* C27, amended: an answer event sets answer to its text (replacing the
\* previous answer) and status to complete; each of strategy, subqueries,
\* model and guardrails takes the event's value when the event carries one
\* and keeps its previous value otherwise; the other fields are unchanged;
\* after any sequence of answer events the answer is the text of the last.
C27_AnswerTransition ==
    /\ \A i \in AnswerEntries :
          LET pre == trace[i].pre[1]
              post == trace[i].post[1]
              e == trace[i].ev[1]
          IN /\ post.answer = e.text
             /\ post.status = "complete"
             /\ \A f \in {"strategy", "model"} :
                   post[f] = (IF Has(e, f) /\ e[f] # Null THEN e[f] ELSE pre[f])
             /\ \A f \in {"subqueries", "guardrails"} :
                   post[f] = (IF Has(e, f) THEN e[f] ELSE pre[f])
             /\ \A f \in {"contexts", "intent", "action", "errorMessage"} :
                   post[f] = pre[f]
    /\ AnswerEntries # {} =>
          /\ streamSnapshot # <<>>
          /\ \E i \in AnswerEntries :
                /\ \A j \in AnswerEntries : j <= i
                /\ streamSnapshot[1].answer = trace[i].ev[1].text

C27_Witness ==
    \E i, j \in AnswerEntries :
        /\ i < j
        /\ trace[i].ev[1].text = "Created task #12"
        /\ ~Has(trace[j].ev[1], "strategy")
        /\ trace[j].post[1].answer = "Draft"
        /\ trace[j].post[1].strategy = "informed"

\* C28: one call of stream invokes onError at most once.
C28_OnErrorAtMostOnce == Cardinality(CallsOf("onError")) <= 1

\* C29: a settled call resolved exactly when it ended with "[DONE]" or with
\* a clean end of the body, and then onDone ran once and last; otherwise it
\* rejected, onDone did not run and onError ran with the error it rejects
\* with.
C29_ResolvesIffCompleted ==
    ending # "none" =>
        /\ outcome \in {"resolved", "rejected"}
        /\ outcome = "resolved" <=> ending \in {"done", "eof"}
        /\ ending = "done" =>
              handled # <<>> /\ FrameKind(handled[Len(handled)].segment) = "CompletionSentinel"
        /\ ending = "eof" =>
              /\ Segments(handled) = AllFrames(decoded)
              /\ \A i \in DOMAIN handled :
                    FrameKind(handled[i].segment) \in {"Empty", "Content"}
        /\ outcome = "resolved" =>
              /\ Cardinality(CallsOf("onDone")) = 1
              /\ calls[Len(calls)].cb = "onDone"
              /\ thrown = NoError
        /\ outcome = "rejected" =>
              /\ CallsOf("onDone") = {}
              /\ thrown # NoError
              /\ calls # <<>> /\ calls[Len(calls)] = ErrorCall(thrown)

C29_Witness ==
    /\ ending = "error"
    /\ outcome = "rejected"
    /\ Len(calls) >= 2 /\ calls[1].cb = "onMessage"
    /\ CallsOf("onDone") = {}

\* C30: a handleSend that started a stream eventually finishes with
\* isSending and isStreaming false and the stored controller cleared; an
\* unmount while a controller is stored aborts it and clears it.
C30_SendCleanup ==
    /\ (pc # "idle") ~>
          (pc = "idle" /\ ~isSending /\ ~isStreaming /\ streamController = Null)
    /\ [][(mounted /\ ~mounted' /\ streamController # Null) =>
             (aborted' /\ streamController' = Null)]_vars

C30_Witness ==
    /\ pc = "idle" /\ sends >= 1
    /\ ~mounted /\ aborted
    /\ ~isSending /\ ~isStreaming /\ streamController = Null

====
